---- MODULE Spec2Model ----
(***************************************************************************)
(* Model of the tldr extension's streaming core:                            *)
(*   - parseStreamingJSON (src/src/modules/prompt-summarizer.js), with      *)
(*     JSON.parse and the two regular expressions computed on character     *)
(*     sequences;                                                           *)
(*   - handlePromptSummarization, the content-script run over the chunks;   *)
(*   - the background service worker (src/src/background.js);               *)
(*   - handleSummarization (src/src/modules/summarizer.js);                 *)
(*   - splitIntoChunks (src/src/modules/text-extractor.js).                 *)
(*                                                                          *)
(* Specifications: SpecParse (the reconciler on a growing buffer), SpecBg   *)
(* (the background under messages of any clients), Spec (one run of         *)
(* handlePromptSummarization with the background), SpecAbort (runs that     *)
(* preempt each other), SpecSum (overlapping handleSummarization calls),    *)
(* SpecSplit (one call of splitIntoChunks), SpecPrompt (the numbers put     *)
(* into the prompts), SpecStop (one run with a service worker that stops),  *)
(* SpecClick (one run with clicks at any time).                             *)
(*                                                                          *)
(* Text is a sequence of characters.  The two property names of the JSON    *)
(* schema are single atoms of the alphabet (KT, KO): a stream never cuts a  *)
(* property name in the middle.                                             *)
(***************************************************************************)
EXTENDS Integers, Sequences, FiniteSets, TLC

\* ------------------------------------------------------------------ text
LB == "["
RB == "]"
LC == "{"
RC == "}"
CM == ","
CL == ":"
QT == "\""
BS == "\\"
SP == " "
KT == "summary_item_text"
KO == "origin_text_reference"

IsPrefix(s, t) == Len(s) <= Len(t) /\ SubSeq(t, 1, Len(s)) = s

Lit(t, i, c) == i >= 1 /\ i <= Len(t) /\ t[i] = c

\* The index of the first non-whitespace character at or after i.
RECURSIVE SkipWs(_, _)
SkipWs(t, i) == IF Lit(t, i, SP) THEN SkipWs(t, i + 1) ELSE i

\* The index of the last non-whitespace character at or before i (0: none).
RECURSIVE SkipWsBack(_, _)
SkipWsBack(t, i) == IF Lit(t, i, SP) THEN SkipWsBack(t, i - 1) ELSE i

\* No trimming at all.
Trim_None(t) == t
\* String.prototype.trim
Trim(t) == SubSeq(t, SkipWs(t, 1), SkipWsBack(t, Len(t)))

\* text.replace(/,?\s*$/, ''): the trailing whitespace and one comma before it.
StripTail(t) ==
  LET e == SkipWsBack(t, Len(t))
  IN  IF Lit(t, e, CM) THEN SubSeq(t, 1, e - 1) ELSE SubSeq(t, 1, e)

\* ------------------------------------------------------------ JSON values
\* A parsed value: a string (s: its characters), an array (c: its elements)
\* or an object (c: its members, each a "mem" holding the key and the value).
Str(s) == [k |-> "str", s |-> s, c |-> <<>>]
Arr(c) == [k |-> "arr", s |-> <<>>, c |-> c]
Mem(key, v) == [k |-> "mem", s |-> key, c |-> <<v>>]
Obj(ms) == [k |-> "obj", s |-> <<>>, c |-> ms]
Null == [k |-> "null", s |-> <<>>, c |-> <<>>]

Fail == [ok |-> FALSE, v |-> Null, i |-> 0]
Ok(v, i) == [ok |-> TRUE, v |-> v, i |-> i]

\* obj[key] = v: a repeated key keeps its first position and takes the new value.
SetMember(ms, key, v) ==
  IF \E j \in 1..Len(ms) : ms[j].s = key
  THEN [j \in 1..Len(ms) |-> IF ms[j].s = key THEN Mem(key, v) ELSE ms[j]]
  ELSE Append(ms, Mem(key, v))

\* obj[key], or Null (undefined).
GetMember(o, key) ==
  IF o.k = "obj" /\ \E j \in 1..Len(o.c) : o.c[j].s = key
  THEN (o.c[CHOOSE j \in 1..Len(o.c) : o.c[j].s = key]).c[1]
  ELSE Null

\* ------------------------------------------------------------- JSON.parse
RECURSIVE ScanString(_, _, _)
RECURSIVE ParseValue(_, _)
RECURSIVE ParseElems(_, _, _)
RECURSIVE ParseMembers(_, _, _)

\* The characters of a string literal from j (after its opening quote); the
\* escapes of the alphabet are \' (the quote) and \\.
ScanString(t, j, acc) ==
  IF j > Len(t) THEN Fail
  ELSE IF t[j] = QT THEN Ok(Str(acc), j + 1)
  ELSE IF t[j] = BS
       THEN IF Lit(t, j + 1, QT) \/ Lit(t, j + 1, BS)
            THEN ScanString(t, j + 2, Append(acc, t[j + 1]))
            ELSE Fail
  ELSE ScanString(t, j + 1, Append(acc, t[j]))

\* value (, value)* ] from i, the first element's start.
ParseElems(t, i, acc) ==
  LET r == ParseValue(t, i)
      j == SkipWs(t, r.i)
  IN  IF ~r.ok THEN Fail
      ELSE IF Lit(t, j, RB) THEN Ok(Arr(Append(acc, r.v)), j + 1)
      ELSE IF Lit(t, j, CM) THEN ParseElems(t, SkipWs(t, j + 1), Append(acc, r.v))
      ELSE Fail

\* "key" : value (, "key" : value)* } from i, the first key's start.
ParseMembers(t, i, acc) ==
  LET key == IF Lit(t, i, QT) THEN ScanString(t, i + 1, <<>>) ELSE Fail
      c == SkipWs(t, key.i)
      r == IF key.ok /\ Lit(t, c, CL) THEN ParseValue(t, SkipWs(t, c + 1)) ELSE Fail
      j == SkipWs(t, r.i)
  IN  IF ~r.ok THEN Fail
      ELSE IF Lit(t, j, RC) THEN Ok(Obj(SetMember(acc, key.v.s, r.v)), j + 1)
      ELSE IF Lit(t, j, CM)
           THEN ParseMembers(t, SkipWs(t, j + 1), SetMember(acc, key.v.s, r.v))
      ELSE Fail

ParseValue(t, i) ==
  IF Lit(t, i, QT) THEN ScanString(t, i + 1, <<>>)
  ELSE IF Lit(t, i, LB)
       THEN IF Lit(t, SkipWs(t, i + 1), RB)
            THEN Ok(Arr(<<>>), SkipWs(t, i + 1) + 1)
            ELSE ParseElems(t, SkipWs(t, i + 1), <<>>)
  ELSE IF Lit(t, i, LC)
       THEN IF Lit(t, SkipWs(t, i + 1), RC)
            THEN Ok(Obj(<<>>), SkipWs(t, i + 1) + 1)
            ELSE ParseMembers(t, SkipWs(t, i + 1), <<>>)
  ELSE Fail

\* JSON.parse(t): ok = FALSE is the SyntaxError.
JSONParse(t) ==
  LET r == ParseValue(t, SkipWs(t, 1))
  IN  IF r.ok /\ SkipWs(t, r.i) = Len(t) + 1 THEN r ELSE Fail

\* ------------------------------------------------------ the regex fallback
\* The first quote at or after i (Len(t) + 1: none).
RECURSIVE NextQuote(_, _)
NextQuote(t, i) ==
  IF i > Len(t) \/ t[i] = QT THEN i ELSE NextQuote(t, i + 1)

Item(m1, m2) == Obj(<<Mem(<<KT>>, Str(m1)), Mem(<<KO>>, Str(m2))>>)

\* { ws "summary_item_text" ws : ws " at p; i is the index after the quote.
MatchOpenAt(t, p) ==
  LET a1 == SkipWs(t, p + 1)
      a2 == SkipWs(t, a1 + 3)
      a3 == SkipWs(t, a2 + 1)
  IN  [ok |-> Lit(t, p, LC) /\ Lit(t, a1, QT) /\ Lit(t, a1 + 1, KT)
              /\ Lit(t, a1 + 2, QT) /\ Lit(t, a2, CL) /\ Lit(t, a3, QT),
       i |-> a3 + 1]

\* completeObjectRegex at p: both fields, each value one or more non-quote
\* characters, then the closing brace; i is the index after the match.
MatchObjectAt(t, p) ==
  LET o == MatchOpenAt(t, p)
      q1 == NextQuote(t, o.i)
      a4 == SkipWs(t, q1 + 1)
      a5 == SkipWs(t, a4 + 1)
      a6 == SkipWs(t, a5 + 3)
      a7 == SkipWs(t, a6 + 1)
      q2 == NextQuote(t, a7 + 1)
      a8 == SkipWs(t, q2 + 1)
      ok == /\ o.ok
            /\ q1 > o.i /\ Lit(t, q1, QT)
            /\ Lit(t, a4, CM)
            /\ Lit(t, a5, QT) /\ Lit(t, a5 + 1, KO) /\ Lit(t, a5 + 2, QT)
            /\ Lit(t, a6, CL)
            /\ Lit(t, a7, QT)
            /\ q2 > a7 + 1 /\ Lit(t, q2, QT)
            /\ Lit(t, a8, RC)
  IN  IF ok
      THEN [ok |-> TRUE, v |-> Item(SubSeq(t, o.i, q1 - 1), SubSeq(t, a7 + 1, q2 - 1)),
            i |-> a8 + 1]
      ELSE Fail

\* while ((match = completeObjectRegex.exec(text)) !== null) allMatches.push(...)
RECURSIVE ExecAll(_, _, _)
ExecAll(t, p, acc) ==
  IF p > Len(t) THEN acc
  ELSE LET m == MatchObjectAt(t, p)
       IN  IF m.ok THEN ExecAll(t, m.i, Append(acc, m.v)) ELSE ExecAll(t, p + 1, acc)

\* text.match(/\{\s*"summary_item_text"\s*:\s*"([^"]*)/): group 1 of the
\* leftmost match, or Null when nothing matches.
RECURSIVE PartialMatch(_, _)
PartialMatch(t, p) ==
  IF p > Len(t) THEN Null
  ELSE LET o == MatchOpenAt(t, p)
       IN  IF o.ok THEN Str(SubSeq(t, o.i, NextQuote(t, o.i) - 1))
           ELSE PartialMatch(t, p + 1)

Result(items, partial) == [completeItems |-> items, partialItem |-> partial]

Front(s) == SubSeq(s, 1, Len(s) - 1)
Last(s) == s[Len(s)]

\* A regex scan that reports every complete match as final.
RegexTier_AllFinal(text) ==
  LET allMatches == ExecAll(text, 1, <<>>)
      partialMatch == PartialMatch(text, 1)
  IN  IF Len(allMatches) > 0
      THEN Result(allMatches, Null)
      ELSE IF partialMatch.k = "str" /\ Len(partialMatch.s) > 0
           THEN Result(<<>>, Item(partialMatch.s, <<>>))
           ELSE Result(<<>>, Null)

\* A regex scan without the partial-text pattern.
RegexTier_NoPartial(text) ==
  LET allMatches == ExecAll(text, 1, <<>>)
  IN  IF Len(allMatches) > 0
      THEN Result(Front(allMatches), Last(allMatches))
      ELSE Result(<<>>, Null)

RegexTier(text) ==
  LET allMatches == ExecAll(text, 1, <<>>)
      partialMatch == PartialMatch(text, 1)
  IN  IF Len(allMatches) > 0
      THEN Result(Front(allMatches), Last(allMatches))
      ELSE IF partialMatch.k = "str" /\ Len(partialMatch.s) > 0
           THEN Result(<<>>, Item(partialMatch.s, <<>>))
           ELSE Result(<<>>, Null)

\* text.trim().endsWith(']')
IsComplete(text) == Lit(Trim(text), Len(Trim(text)), RB)

\* The text handed to JSON.parse: the trimmed text, closed with ']' after
\* its trailing comma and whitespace are removed when it is not complete.
TextToParse(text) ==
  IF IsComplete(text) THEN Trim(text) ELSE StripTail(Trim(text)) \o <<RB>>

\* An exception leaving the function: nothing is returned.
Thrown == [threw |-> TRUE, completeItems |-> <<>>, partialItem |-> Null]
\* A catch block that throws the error again.
Catch_Rethrow(text) == Thrown
\* catch (e) {}: the error is dropped and the regex scan runs.
Catch(text) == RegexTier(text)

\* parseStreamingJSON that takes every item of the repaired text for final.
parseStreamingJSON_NoLag(text) ==
  LET items == JSONParse(TextToParse(text))
  IN  IF items.ok
      THEN IF items.v.k = "arr" THEN Result(items.v.c, Null) ELSE Result(<<>>, Null)
      ELSE Catch(text)

\* parseStreamingJSON made of the regex scan alone.
parseStreamingJSON_RegexOnly(text) == RegexTier(text)

parseStreamingJSON(text) ==
  LET isComplete == IsComplete(text)
      items == JSONParse(TextToParse(text))
  IN  IF items.ok
      THEN IF items.v.k = "arr"
           THEN IF isComplete THEN Result(items.v.c, Null)
                ELSE IF Len(items.v.c) > 0
                     THEN Result(Front(items.v.c), Last(items.v.c))
                     ELSE Result(<<>>, Null)
           ELSE Result(<<>>, Null)
      ELSE Catch(text)

\* ------------------------------------------------------- the model's output
\* "key":"value"
Field(key, v) == <<QT, key, QT, CL, QT>> \o v \o <<QT>>

\* One object of the schema as the model writes it; t and o are the raw
\* characters between the quotes.
ItemText(t, o) == <<LC>> \o Field(KT, t) \o <<CM>> \o Field(KO, o) \o <<RC>>

RECURSIVE JoinItems(_)
JoinItems(its) ==
  IF Len(its) = 0 THEN <<>>
  ELSE IF Len(its) = 1 THEN ItemText(its[1][1], its[1][2])
  ELSE ItemText(its[1][1], its[1][2]) \o <<CM>> \o JoinItems(Tail(its))

\* The JSON array text of a sequence of <<t, o>> pairs.
ArrayText(its) == <<LB>> \o JoinItems(its) \o <<RB>>

\* Bounds of the reconciler's inputs.
MaxParseItems == 3

\* Raw field pairs the reconciler is run on: plain, an empty reference, an
\* escaped backslash, a closing bracket inside a string.
ParseItems == { <<<<"a">>, <<"b">>>>, <<<<"c">>, <<>>>>, <<<<BS, BS>>, <<"d">>>>,
                <<<<RB>>, <<"e">>>> }

ParseItemSeqs == UNION { [1..n -> ParseItems] : n \in 0..MaxParseItems }

\* The array of its as the model writes it, bare or with whitespace around it.
ParseOutputs(its) == {ArrayText(its), <<SP>> \o ArrayText(its) \o <<SP>>}

\* ---------------------------------------------------------------- bounds
\* One run (Spec): most text chunks of the page; most snapshots before a
\* stream's last one, most schema items and most failures the capability
\* produces in one behaviour.
MaxSegments == 8
MaxSnapshots == 1
MaxItems == 2
MaxFaults == 1
\* splitIntoChunks (SpecSplit): longest text, largest maxChunkSize, how far
\* below zero maxChunkSize goes, and the depth at which the call stack
\* overflows.
MaxTextLen == 5
MaxChunkSize == 3
MaxNegSize == 1
MaxStack == 6
\* The prompts (SpecPrompt): most prompts built in one behaviour.
MaxPrompts == 2
\* handleSummarization (SpecSum): most calls, most chunks of one stream.
MaxSumCalls == 2
MaxSumChunks == 2
\* Runs that preempt each other (SpecAbort): the same, and the number of runs.
MaxRuns == 2
AbortSegments == 6
AbortSnapshots == 0
AbortItems == 1
AbortFaults == 0
\* A run whose service worker stops (SpecStop): the same, the stops of the
\* worker being the faults.
StopSegments == 6
StopSnapshots == 1
StopItems == 1
StopFaults == 1
\* A run with clicks at any time (SpecClick): the same, and the clicks that
\* find no listener.
ClickSegments == 11
ClickSnapshots == 0
ClickItems == 1
ClickFaults == 1
MaxIgnored == 2
\* The background under unrelated clients (SpecBg): their ports and messages.
MaxEnvMsgs == 3
MaxEnvPorts == 2

\* The items the model writes over a behaviour, none twice.
RunItems == << <<<<"a">>, <<"b">>>>, <<<<"c">>, <<"d">>>>, <<<<"e">>, <<"f">>>> >>

\* A snapshot of the stream ends after a closed object, after the first
\* character of the first string of the first object, or at the end of the
\* output.
FirstText == Len(<<LB, LC, QT, KT, QT, CL, QT>>) + 1
IsCut(out, p) == p = Len(out) \/ out[p] = RC \/ p = FirstText

Min(a, b) == IF a < b THEN a ELSE b

VARIABLES outItems, fullOut, buffer, parsed,
          mode, nChunks,
          currentSession, currentController, aborted, tasks, nSessions, destroyed,
          ports,
          port, csController, csAborted, runs,
          runsLeft, snapshotsLeft, itemsLeft, faultsLeft, envMsgs,
          sumVariant, sumCalls, creates, sumController, sumAborted,
          splitIn, splitOut,
          prompts

\* The model's answer of k items: the next k it has not written yet.
RunOutput(k) ==
  ArrayText(SubSeq(RunItems, Len(RunItems) - itemsLeft + 1,
                   Len(RunItems) - itemsLeft + k))

parseVars == <<outItems, fullOut, buffer, parsed>>
envVars == <<mode, nChunks, runsLeft, snapshotsLeft, itemsLeft, faultsLeft, envMsgs>>
bgVars == <<currentSession, currentController, aborted, tasks, nSessions, destroyed>>
csVars == <<port, csController, csAborted, runs>>
sumVars == <<sumVariant, sumCalls, creates, sumController, sumAborted>>
splitVars == <<splitIn, splitOut>>
vars == <<parseVars, envVars, bgVars, ports, csVars, sumVars, splitVars, prompts>>

\* ------------------------------------------------------------------ ports
\* A chrome.runtime port between a content script and the background.
\* owner: the run whose listener is attached (0: an unrelated client); kind:
\* "seg" for a text chunk (seg: its index), "tldr" for the synopsis;
\* toBg / toCs: messages posted and not yet dispatched; open: neither end has
\* disconnected; accumulatedText / lastCompleteCount: the variables the
\* content listener of this port closes over; appended: the items that
\* listener has added to allKeyPoints; completed: it has handled 'complete'.
NewPort(owner, kind, seg, request) ==
  [owner |-> owner, kind |-> kind, seg |-> seg, open |-> TRUE,
   toBg |-> request, toCs |-> <<>>,
   accumulatedText |-> <<>>, lastCompleteCount |-> 0,
   appended |-> <<>>, completed |-> FALSE]

Msg(type, content) == [type |-> type, content |-> content]

\* port.postMessage from the background: throws on a disconnected port.  An
\* unrelated client takes its messages at once; its queue is not kept.
CanPost(p) == ports[p].open
PostToCs(ps, p, m) ==
  IF ps[p].owner = 0 THEN ps ELSE [ps EXCEPT ![p].toCs = Append(@, m)]

\* ------------------------------------------------------------- background
\* One call of handleSummarize or handlePrompt.  pc: the await it is
\* suspended at ("avail", "create", "stream") or "done"; the controller of a
\* summarize task is identified with the task.  Of an ended call: posted,
\* the terminal message it posted ("" for none); cancelled, its signal was
\* aborted when it ended; at, the await it ended at.
NewTask(kind, p, pc, sess, out) ==
  [kind |-> kind, port |-> p, pc |-> pc, sess |-> sess, out |-> out, pos |-> 0,
   accumulatedText |-> <<>>, posted |-> "", cancelled |-> FALSE, at |-> ""]

IsAborted(t) == tasks[t].kind = "summarize" /\ t \in aborted

\* The record of an ended call: its locals are gone.
Ended(t, posted) ==
  [NewTask(tasks[t].kind, tasks[t].port, "done", tasks[t].sess, <<>>)
     EXCEPT !.posted = posted, !.cancelled = IsAborted(t), !.at = tasks[t].pc]

\* The task ends, posting m when the port still takes it (a throw of
\* postMessage inside the catch block ends the call as well).
EndTask(t, type, content) ==
  /\ tasks' = [tasks EXCEPT ![t] =
                  Ended(t, IF type # "" /\ CanPost(tasks[t].port) THEN type ELSE "")]
  /\ ports' = IF type # "" /\ CanPost(tasks[t].port)
              THEN PostToCs(ports, tasks[t].port, Msg(type, content))
              ELSE ports

\* currentSession.promptStreaming(...): the answer the model will write.
StartStream(t, kind, p, sess, k) ==
  NewTask(kind, p, "stream", sess, IF kind = "summarize" THEN RunOutput(k) ELSE <<"s">>)

\* A test that never finds a session.
NoSession_Always == TRUE
\* if (!currentSession)
NoSession == currentSession = 0

\* handleSummarize up to its first await.
HandleSummarize(p) ==
  LET t == Len(tasks) + 1
  IN  /\ aborted' = IF currentController # 0 THEN aborted \cup {currentController}
                    ELSE aborted
      /\ currentController' = t
      /\ IF NoSession
         THEN /\ tasks' = Append(tasks, NewTask("summarize", p,
                                 IF CanPost(p) THEN "avail" ELSE "done", 0, <<>>))
              /\ ports' = IF CanPost(p)
                          THEN PostToCs([ports EXCEPT ![p].toBg = Tail(@)], p,
                                        Msg("update", <<>>))
                          ELSE [ports EXCEPT ![p].toBg = Tail(@)]
              /\ UNCHANGED itemsLeft
         ELSE \E k \in 0..Min(Len(RunItems), itemsLeft) :
              /\ tasks' = Append(tasks, StartStream(t, "summarize", p, currentSession, k))
              /\ ports' = [ports EXCEPT ![p].toBg = Tail(@)]
              /\ itemsLeft' = itemsLeft - k
      /\ UNCHANGED <<currentSession, nSessions, destroyed>>

\* handlePrompt up to its first await.
HandlePrompt(p) ==
  LET t == Len(tasks) + 1
  IN  /\ tasks' = Append(tasks,
                    IF NoSession THEN NewTask("prompt", p, "avail", 0, <<>>)
                    ELSE StartStream(t, "prompt", p, currentSession, 0))
      /\ ports' = [ports EXCEPT ![p].toBg = Tail(@)]
      /\ UNCHANGED <<currentSession, currentController, aborted, nSessions, destroyed,
                     itemsLeft>>

HandleAbort(p) ==
  /\ aborted' = IF currentController # 0 THEN aborted \cup {currentController}
                ELSE aborted
  /\ currentController' = 0
  /\ ports' = IF CanPost(p)
              THEN PostToCs([ports EXCEPT ![p].toBg = Tail(@)], p, Msg("aborted", <<>>))
              ELSE [ports EXCEPT ![p].toBg = Tail(@)]
  /\ UNCHANGED <<currentSession, tasks, nSessions, destroyed, itemsLeft>>

\* handleDestroy that destroys the session and keeps the reference to it.
HandleDestroy_KeepSession(p) ==
  /\ destroyed' = IF currentSession # 0 THEN destroyed \cup {currentSession}
                  ELSE destroyed
  /\ aborted' = IF currentController # 0 THEN aborted \cup {currentController}
                ELSE aborted
  /\ currentController' = 0
  /\ ports' = [ports EXCEPT ![p].toBg = Tail(@)]
  /\ UNCHANGED <<currentSession, tasks, nSessions, itemsLeft>>

HandleDestroy(p) ==
  /\ destroyed' = IF currentSession # 0 THEN destroyed \cup {currentSession}
                  ELSE destroyed
  /\ currentSession' = 0
  /\ aborted' = IF currentController # 0 THEN aborted \cup {currentController}
                ELSE aborted
  /\ currentController' = 0
  /\ ports' = [ports EXCEPT ![p].toBg = Tail(@)]
  /\ UNCHANGED <<tasks, nSessions, itemsLeft>>

\* port.onMessage in the background: the switch on message.type.
BgReceive(p) ==
  /\ p \in 1..Len(ports)
  /\ Len(ports[p].toBg) > 0
  /\ LET type == Head(ports[p].toBg).type
     IN  CASE type = "summarize" -> HandleSummarize(p)
           [] type = "prompt" -> HandlePrompt(p)
           [] type = "abort" -> HandleAbort(p)
           [] type = "destroy" -> HandleDestroy(p)
  /\ UNCHANGED <<parseVars, sumVars, splitVars, prompts, mode, nChunks, runsLeft, snapshotsLeft, faultsLeft, envMsgs,
                 csVars>>

\* An availability check whose failure ends the call without a message.
TaskAvail_Silent(t) ==
  /\ t \in 1..Len(tasks)
  /\ tasks[t].pc = "avail"
  /\ \/ /\ tasks' = [tasks EXCEPT ![t].pc = "create"]
        /\ UNCHANGED <<ports, faultsLeft>>
     \/ /\ faultsLeft > 0
        /\ faultsLeft' = faultsLeft - 1
        /\ tasks' = [tasks EXCEPT ![t] = Ended(t, "")]
        /\ UNCHANGED ports
  /\ UNCHANGED <<parseVars, sumVars, splitVars, prompts, mode, nChunks, runsLeft, snapshotsLeft, itemsLeft, envMsgs,
                 csVars,
                 currentSession, currentController, aborted, nSessions, destroyed>>

\* await self.LanguageModel.availability() returns: 'no' throws, anything
\* else goes on to LanguageModel.create.
TaskAvail(t) ==
  /\ t \in 1..Len(tasks)
  /\ tasks[t].pc = "avail"
  /\ \/ /\ tasks' = [tasks EXCEPT ![t].pc = "create"]
        /\ UNCHANGED <<ports, faultsLeft>>
     \/ /\ faultsLeft > 0
        /\ faultsLeft' = faultsLeft - 1
        /\ EndTask(t, "error", <<>>)
  /\ UNCHANGED <<parseVars, sumVars, splitVars, prompts, mode, nChunks, runsLeft, snapshotsLeft, itemsLeft, envMsgs,
                 csVars,
                 currentSession, currentController, aborted, nSessions, destroyed>>

\* await LanguageModel.create({signal}) settles.  With the signal aborted it
\* rejects with an AbortError, or resolves when the implementation had the
\* session ready; the session is stored before signal.aborted is looked at.
TaskCreate(t) ==
  /\ t \in 1..Len(tasks)
  /\ tasks[t].pc = "create"
  /\ \/ /\ IsAborted(t)
        /\ EndTask(t, "error", <<>>)
        /\ UNCHANGED <<currentSession, nSessions, itemsLeft>>
     \/ /\ nSessions' = nSessions + 1
        /\ currentSession' = nSessions + 1
        /\ IF IsAborted(t)
           THEN /\ tasks' = [tasks EXCEPT ![t] = Ended(t, "")]
                /\ UNCHANGED itemsLeft
           ELSE \E k \in 0..(IF tasks[t].kind = "summarize"
                              THEN Min(Len(RunItems), itemsLeft) ELSE 0) :
                /\ tasks' = [tasks EXCEPT ![t] =
                               StartStream(t, tasks[t].kind, tasks[t].port,
                                           nSessions + 1, k)]
                /\ itemsLeft' = itemsLeft - k
        /\ UNCHANGED ports
  /\ UNCHANGED <<parseVars, sumVars, splitVars, prompts, mode, nChunks, runsLeft, snapshotsLeft, faultsLeft, envMsgs,
                 csVars,
                 currentController, aborted, destroyed>>

\* What the stream yields when it has written out[1..q] and had written
\* out[1..pos] at its previous snapshot.
Snapshot(out, pos, q) ==
  IF mode = "cumulative" THEN SubSeq(out, 1, q) ELSE SubSeq(out, pos + 1, q)

\* for await (const chunk of stream): one more snapshot arrives.
StreamYield(t) ==
  /\ t \in 1..Len(tasks)
  /\ tasks[t].pc = "stream"
  /\ tasks[t].sess \notin destroyed
  /\ \E q \in (tasks[t].pos + 1)..Len(tasks[t].out) :
       /\ IsCut(tasks[t].out, q)
       /\ q = Len(tasks[t].out) \/ snapshotsLeft > 0
       /\ snapshotsLeft' = IF q = Len(tasks[t].out) THEN snapshotsLeft
                           ELSE snapshotsLeft - 1
       /\ LET chunk == Snapshot(tasks[t].out, tasks[t].pos, q)
          IN  IF IsAborted(t)
              THEN /\ tasks' = [tasks EXCEPT ![t] = Ended(t, "")]
                   /\ UNCHANGED ports
              ELSE IF CanPost(tasks[t].port)
              THEN /\ tasks' = [tasks EXCEPT ![t].pos = q, ![t].accumulatedText = chunk]
                   /\ ports' = PostToCs(ports, tasks[t].port, Msg("chunk", chunk))
              ELSE /\ tasks' = [tasks EXCEPT ![t] = Ended(t, "")]
                   /\ UNCHANGED ports
  /\ UNCHANGED <<parseVars, sumVars, splitVars, prompts, mode, nChunks, runsLeft, itemsLeft, faultsLeft, envMsgs,
                 csVars,
                 currentSession, currentController, aborted, nSessions, destroyed>>

\* StreamDone without the test of signal.aborted after the loop.
StreamDone_NoAbortCheck(t) ==
  /\ t \in 1..Len(tasks)
  /\ tasks[t].pc = "stream"
  /\ tasks[t].sess \notin destroyed
  /\ tasks[t].pos = Len(tasks[t].out)
  /\ EndTask(t, "complete", tasks[t].accumulatedText)
  /\ UNCHANGED <<parseVars, sumVars, splitVars, prompts, envVars, csVars,
                 currentSession, currentController, aborted, nSessions, destroyed>>

\* The stream ends: the loop exits and the final result is posted.
StreamDone(t) ==
  /\ t \in 1..Len(tasks)
  /\ tasks[t].pc = "stream"
  /\ tasks[t].sess \notin destroyed
  /\ tasks[t].pos = Len(tasks[t].out)
  /\ IF IsAborted(t)
     THEN /\ tasks' = [tasks EXCEPT ![t] = Ended(t, "")]
          /\ UNCHANGED ports
     ELSE EndTask(t, "complete", tasks[t].accumulatedText)
  /\ UNCHANGED <<parseVars, sumVars, splitVars, prompts, envVars, csVars,
                 currentSession, currentController, aborted, nSessions, destroyed>>

\* The stream throws: an AbortError once its signal is aborted, an error of a
\* destroyed session, or a failure of the model.  The catch block posts it.
StreamThrow(t) ==
  /\ t \in 1..Len(tasks)
  /\ tasks[t].pc = "stream"
  /\ \/ /\ IsAborted(t) \/ tasks[t].sess \in destroyed
        /\ UNCHANGED faultsLeft
     \/ /\ ~IsAborted(t) /\ tasks[t].sess \notin destroyed
        /\ faultsLeft > 0
        /\ faultsLeft' = faultsLeft - 1
  /\ EndTask(t, "error", <<>>)
  /\ UNCHANGED <<parseVars, sumVars, splitVars, prompts, mode, nChunks, runsLeft, snapshotsLeft, itemsLeft, envMsgs,
                 csVars,
                 currentSession, currentController, aborted, nSessions, destroyed>>

\* An unrelated client (another tab, the popup) posts a message on its port.
EnvSend(p, type) ==
  /\ p \in 1..Len(ports)
  /\ ports[p].owner = 0
  /\ envMsgs < MaxEnvMsgs
  /\ envMsgs' = envMsgs + 1
  /\ ports' = [ports EXCEPT ![p].toBg = Append(@, Msg(type, <<>>))]
  /\ UNCHANGED <<parseVars, sumVars, splitVars, prompts, mode, nChunks, runsLeft, snapshotsLeft, itemsLeft,
                 faultsLeft, bgVars, csVars>>

\* ---------------------------------------------------------- content script
\* One call of handlePromptSummarization.  n: totalChunks; i: the loop index;
\* pc: the await it is suspended at ("stream": processStream, "wait":
\* waitForContinue, "tldr": generateTLDR) or "done"; p: the port of that
\* await; listening: the click listener of waitForContinue ("timer" while
\* its setTimeout is pending); resumes: the clicks on the continue button its
\* listener has taken; ignored: the clicks on the button that found no click
\* listener; sink: the calls of onUpdate so far; html: the content of the
\* last one.
NewRun(n) ==
  [n |-> n, i |-> 0, pc |-> "start", p |-> 0, allKeyPoints |-> <<>>,
   listening |-> "off", resumes |-> 0, ignored |-> 0, tldrText |-> <<>>, sink |-> <<>>,
   html |-> [items |-> <<>>, partialCount |-> 0]]

CheckpointInterval == 5

\* The content script's state as one value, for the synchronous code that
\* runs between two awaits.
CS == [runs |-> runs, ports |-> ports, port |-> port]

\* onUpdate(html, isLoading, isError)
Emit(cs, r, kind, isLoading, isError, arg, items, partialCount) ==
  [cs EXCEPT !.runs[r].sink = Append(@, [kind |-> kind, isLoading |-> isLoading,
                                        isError |-> isError, arg |-> arg]),
             !.runs[r].html = [items |-> items, partialCount |-> partialCount]]

\* port.disconnect() in the content script: nothing more is dispatched to it.
DisconnectPort(cs, p) ==
  [cs EXCEPT !.ports[p].open = FALSE, !.ports[p].toCs = <<>>]

\* chrome.runtime.connect(...) followed by postMessage(request)
Connect(cs, r, kind, request) ==
  [cs EXCEPT !.ports = Append(@, NewPort(r, kind, cs.runs[r].i, <<Msg(request, <<>>)>>))]

\* finally { if (port) { port.disconnect(); port = null; } }
Finally(cs, r) ==
  LET c1 == IF cs.port # 0 THEN [DisconnectPort(cs, cs.port) EXCEPT !.port = 0] ELSE cs
  IN  [c1 EXCEPT !.runs[r].pc = "done"]

\* Finish without the test of signal.aborted.
Finish_NoAbortCheck(cs, r) ==
  IF Len(cs.runs[r].allKeyPoints) > 0
  THEN LET c1 == Emit(cs, r, "final", FALSE, FALSE, 0, cs.runs[r].allKeyPoints, 0)
           c2 == Connect(c1, r, "tldr", "prompt")
       IN  [c2 EXCEPT !.runs[r].pc = "tldr", !.runs[r].p = Len(c2.ports)]
  ELSE Finally(cs, r)

\* Finish without the test of allKeyPoints.length.
Finish_EmptyOk(cs, r) ==
  IF r \notin csAborted
  THEN LET c1 == Emit(cs, r, "final", FALSE, FALSE, 0, cs.runs[r].allKeyPoints, 0)
           c2 == Connect(c1, r, "tldr", "prompt")
       IN  [c2 EXCEPT !.runs[r].pc = "tldr", !.runs[r].p = Len(c2.ports)]
  ELSE Finally(cs, r)

\* After the loop: the final render and the synopsis request.
Finish(cs, r) ==
  IF r \notin csAborted /\ Len(cs.runs[r].allKeyPoints) > 0
  THEN LET c1 == Emit(cs, r, "final", FALSE, FALSE, 0, cs.runs[r].allKeyPoints, 0)
           c2 == Connect(c1, r, "tldr", "prompt")
       IN  [c2 EXCEPT !.runs[r].pc = "tldr", !.runs[r].p = Len(c2.ports)]
  ELSE Finally(cs, r)

\* The body of the loop from the progress message to await processStream.
SegmentStart(cs, r) ==
  LET run == cs.runs[r]
      c1 == IF run.n > 1 /\ run.i > 0
            THEN Emit(cs, r, "progress", FALSE, FALSE, run.i + 1, run.allKeyPoints, 0)
            ELSE cs
      c2 == Connect(c1, r, "seg", "summarize")
  IN  [c2 EXCEPT !.port = Len(c2.ports),
                 !.runs[r].pc = "stream", !.runs[r].p = Len(c2.ports)]

\* NeedsCheckpoint without i > 0.
NeedsCheckpoint_AtZero(i, n) == i % CheckpointInterval = 0 /\ i < n

\* if (i > 0 && i % 5 === 0 && i < totalChunks)
NeedsCheckpoint(i, n) == i > 0 /\ i % CheckpointInterval = 0 /\ i < n

\* LoopTop that leaves out the wait after a click that found no listener.
LoopTop_Remembers(cs, r) ==
  LET run == cs.runs[r]
  IN  IF run.i >= run.n \/ r \in csAborted THEN Finish(cs, r)
      ELSE IF NeedsCheckpoint(run.i, run.n)
      THEN IF run.ignored > 0
           THEN SegmentStart(Emit(cs, r, "checkpoint", FALSE, FALSE, run.n - run.i,
                                  run.allKeyPoints, 0), r)
           ELSE [Emit(cs, r, "checkpoint", FALSE, FALSE, run.n - run.i,
                      run.allKeyPoints, 0)
                   EXCEPT !.runs[r].pc = "wait", !.runs[r].listening = "timer"]
      ELSE SegmentStart(cs, r)

\* LoopTop going on to the segment right after the checkpoint prompt.
LoopTop_NoWait(cs, r) ==
  LET run == cs.runs[r]
  IN  IF run.i >= run.n \/ r \in csAborted THEN Finish(cs, r)
      ELSE IF NeedsCheckpoint(run.i, run.n)
      THEN SegmentStart(Emit(cs, r, "checkpoint", FALSE, FALSE, run.n - run.i,
                             run.allKeyPoints, 0), r)
      ELSE SegmentStart(cs, r)

\* The top of the loop for index runs[r].i.
LoopTop(cs, r) ==
  LET run == cs.runs[r]
  IN  IF run.i >= run.n \/ r \in csAborted THEN Finish(cs, r)
      ELSE IF NeedsCheckpoint(run.i, run.n)
      THEN [Emit(cs, r, "checkpoint", FALSE, FALSE, run.n - run.i, run.allKeyPoints, 0)
              EXCEPT !.runs[r].pc = "wait", !.runs[r].listening = "timer"]
      ELSE SegmentStart(cs, r)

\* await processStream returns: the abort check, then the next index.
AfterStream(cs, r) ==
  IF r \in csAborted THEN Finish(cs, r)
  ELSE LoopTop([cs EXCEPT !.runs[r].i = @ + 1], r)

\* await waitForContinue returns.
AfterWait(cs, r) ==
  IF r \in csAborted THEN Finish(cs, r) ELSE SegmentStart(cs, r)

\* resolve() of the processStream promise of port p.
Resolve(cs, r, p) ==
  IF cs.runs[r].pc = "stream" /\ cs.runs[r].p = p THEN AfterStream(cs, r) ELSE cs

\* reject(new Error(message.content)): the catch block of the run.
Reject(cs, r, p) ==
  IF cs.runs[r].pc = "stream" /\ cs.runs[r].p = p
  THEN Finally(Emit(cs, r, "error", FALSE, TRUE, 0, <<>>, 0), r)
  ELSE cs

\* A test that takes every value for falsy.
Truthy_Never(v) == FALSE
\* A value used as a condition: an object or a non-empty string.
Truthy(v) == v.k \in {"arr", "obj"} \/ (v.k = "str" /\ Len(v.s) > 0)

\* ChunkParsed with allKeyPoints = newItems in place of the concat.
ChunkParsed_Replace(cs, r, p, accumulatedText, res) ==
  LET grew == Len(res.completeItems) > cs.ports[p].lastCompleteCount
      newItems == IF grew
                  THEN SubSeq(res.completeItems, cs.ports[p].lastCompleteCount + 1,
                              Len(res.completeItems))
                  ELSE <<>>
      allKeyPoints == IF grew THEN newItems ELSE cs.runs[r].allKeyPoints
      c1 == [cs EXCEPT !.ports[p].accumulatedText = accumulatedText,
                       !.ports[p].lastCompleteCount =
                          IF grew THEN Len(res.completeItems) ELSE @,
                       !.ports[p].appended = @ \o newItems,
                       !.runs[r].allKeyPoints = allKeyPoints]
  IN  Emit(c1, r, "items", FALSE, FALSE, 0, allKeyPoints,
           IF res.partialItem # Null THEN 1 ELSE 0)

\* case 'chunk', after accumulatedText += message.content and
\* res = parseStreamingJSON(accumulatedText)
ChunkParsed(cs, r, p, accumulatedText, res) ==
  LET grew == Len(res.completeItems) > cs.ports[p].lastCompleteCount
      newItems == IF grew
                  THEN SubSeq(res.completeItems, cs.ports[p].lastCompleteCount + 1,
                              Len(res.completeItems))
                  ELSE <<>>
      allKeyPoints == cs.runs[r].allKeyPoints \o newItems
      itemsToRender ==
        IF res.partialItem # Null /\ Truthy(GetMember(res.partialItem, <<KT>>))
        THEN Append(allKeyPoints, res.partialItem) ELSE allKeyPoints
      c1 == [cs EXCEPT !.ports[p].accumulatedText = accumulatedText,
                       !.ports[p].lastCompleteCount =
                          IF grew THEN Len(res.completeItems) ELSE @,
                       !.ports[p].appended = @ \o newItems,
                       !.runs[r].allKeyPoints = allKeyPoints]
  IN  Emit(c1, r, "items", FALSE, FALSE, 0, itemsToRender,
           IF res.partialItem # Null THEN 1 ELSE 0)

\* A chunk handler that also resolves the stream's promise.
OnChunk_Resolves(cs, r, p, content) ==
  Resolve(ChunkParsed(cs, r, p, cs.ports[p].accumulatedText \o content,
                      parseStreamingJSON(cs.ports[p].accumulatedText \o content)), r, p)

\* case 'chunk'
OnChunk(cs, r, p, content) ==
  ChunkParsed(cs, r, p, cs.ports[p].accumulatedText \o content,
              parseStreamingJSON(cs.ports[p].accumulatedText \o content))

\* case 'complete', after finalItems = JSON.parse(message.content)
CompleteParsed(cs, r, p, content, finalItems) ==
  LET more == finalItems.ok /\ finalItems.v.k = "arr"
              /\ Len(finalItems.v.c) > cs.ports[p].lastCompleteCount
      newItems == IF more
                  THEN SubSeq(finalItems.v.c, cs.ports[p].lastCompleteCount + 1,
                              Len(finalItems.v.c))
                  ELSE <<>>
  IN  [cs EXCEPT !.ports[p].accumulatedText = content,
                 !.ports[p].appended = @ \o newItems,
                 !.ports[p].completed = TRUE,
                 !.runs[r].allKeyPoints = @ \o newItems]

\* case 'complete', up to port.disconnect()
OnComplete(cs, r, p, content) == CompleteParsed(cs, r, p, content, JSONParse(content))

\* The listener of a chunk's port (port.onMessage.addListener in the loop).
\* port is the module's variable: with port = null, port.disconnect() throws
\* and the rest of the listener does not run.
OnSegMessage(cs, r, p, m) ==
  IF r \in csAborted
  THEN IF cs.port = 0 THEN cs ELSE Resolve(DisconnectPort(cs, cs.port), r, p)
  ELSE CASE m.type = "update" -> Emit(cs, r, "bg", TRUE, FALSE, 0, <<>>, 0)
         [] m.type = "chunk" -> OnChunk(cs, r, p, m.content)
         [] m.type = "complete" ->
              LET c1 == OnComplete(cs, r, p, m.content)
              IN  IF c1.port = 0 THEN c1 ELSE Resolve(DisconnectPort(c1, c1.port), r, p)
         [] m.type = "error" ->
              LET c1 == Emit(cs, r, "error", FALSE, TRUE, 0, <<>>, 0)
              IN  IF c1.port = 0 THEN c1 ELSE Reject(DisconnectPort(c1, c1.port), r, p)
         [] m.type = "aborted" ->
              IF cs.port = 0 THEN cs ELSE Resolve(DisconnectPort(cs, cs.port), r, p)

\* tldrText.replace(/"/g, '')
RemoveQuotes(t) == SelectSeq(t, LAMBDA c : c # QT)

\* OnTldrMessage whose failure is surfaced as an error update.
OnTldrMessage_Surface(cs, r, p, m) ==
  CASE m.type = "chunk" -> [cs EXCEPT !.runs[r].tldrText = @ \o m.content]
    [] m.type = "complete" ->
         LET c1 == DisconnectPort(cs, p)
             c2 == IF Len(Trim(RemoveQuotes(c1.runs[r].tldrText))) > 0
                      /\ r \notin csAborted
                   THEN Emit(c1, r, "tldr", FALSE, FALSE, 0, c1.runs[r].allKeyPoints, 0)
                   ELSE c1
         IN  Finally(c2, r)
    [] m.type = "error" ->
         Finally(Emit(DisconnectPort(cs, p), r, "error", FALSE, TRUE, 0, <<>>, 0), r)
    [] OTHER -> cs

\* The listener of generateTLDR's port, and what follows await generateTLDR.
OnTldrMessage(cs, r, p, m) ==
  CASE m.type = "chunk" -> [cs EXCEPT !.runs[r].tldrText = @ \o m.content]
    [] m.type = "complete" ->
         LET c1 == DisconnectPort(cs, p)
             c2 == IF Len(Trim(RemoveQuotes(c1.runs[r].tldrText))) > 0
                      /\ r \notin csAborted
                   THEN Emit(c1, r, "tldr", FALSE, FALSE, 0, c1.runs[r].allKeyPoints, 0)
                   ELSE c1
         IN  Finally(c2, r)
    [] m.type = "error" -> Finally(DisconnectPort(cs, p), r)
    [] OTHER -> cs

SetCS(cs) == runs' = cs.runs /\ ports' = cs.ports /\ port' = cs.port

\* The user asks for key points: handlePromptSummarization up to its first await.
StartRun ==
  /\ runsLeft > 0
  /\ runsLeft' = runsLeft - 1
  /\ LET r == Len(runs) + 1
         c0 == [CS EXCEPT !.runs = Append(@, NewRun(nChunks))]
         c1 == Emit(c0, r, "loading", TRUE, FALSE, 0, <<>>, 0)
     IN  SetCS(LoopTop(c1, r))
  /\ csAborted' = IF csController # 0 THEN csAborted \cup {csController} ELSE csAborted
  /\ csController' = Len(runs) + 1
  /\ UNCHANGED <<parseVars, sumVars, splitVars, prompts, mode, nChunks, snapshotsLeft, itemsLeft, faultsLeft, envMsgs,
                 bgVars>>

\* A message of the background is dispatched to the listener of port p.
Deliver(p) ==
  /\ p \in 1..Len(ports)
  /\ ports[p].owner # 0
  /\ ports[p].open
  /\ Len(ports[p].toCs) > 0
  /\ LET m == Head(ports[p].toCs)
         c0 == [CS EXCEPT !.ports[p].toCs = Tail(@)]
     IN  SetCS(IF ports[p].kind = "seg" THEN OnSegMessage(c0, ports[p].owner, p, m)
               ELSE OnTldrMessage(c0, ports[p].owner, p, m))
  /\ UNCHANGED <<parseVars, sumVars, splitVars, prompts, envVars, bgVars, csController, csAborted>>

\* The setTimeout of waitForContinue fires: the click listener is added.
AddClickListener(r) ==
  /\ r \in 1..Len(runs)
  /\ runs[r].listening = "timer"
  /\ runs' = [runs EXCEPT ![r].listening = "on"]
  /\ UNCHANGED <<parseVars, sumVars, splitVars, prompts, envVars, bgVars, ports, port, csController, csAborted>>

\* The listeners of one click on the continue button, in the order added.
RECURSIVE ClickFrom(_, _)
ClickFrom(cs, r) ==
  IF r > Len(cs.runs) THEN cs
  ELSE IF cs.runs[r].listening = "on"
       THEN ClickFrom(AfterWait([cs EXCEPT !.runs[r].listening = "off",
                                           !.runs[r].resumes = @ + 1], r), r + 1)
       ELSE ClickFrom(cs, r + 1)

\* The user clicks "Continue Processing".
ClickContinue ==
  /\ \E r \in 1..Len(runs) : runs[r].listening = "on"
  /\ SetCS(ClickFrom(CS, 1))
  /\ UNCHANGED <<parseVars, sumVars, splitVars, prompts, envVars, bgVars, csController, csAborted>>

\* port.onDisconnect of port p in the content script, the other end being
\* gone: the listener of a chunk's port resolves processStream; the listener
\* of generateTLDR's port resolves with the text received when there is some
\* and rejects otherwise.
OnDisconnect(cs, r, p) ==
  LET c1 == [cs EXCEPT !.ports[p].open = FALSE]
  IN  IF c1.ports[p].kind = "seg" THEN Resolve(c1, r, p)
      ELSE IF c1.runs[r].pc = "tldr" /\ c1.runs[r].p = p
      THEN OnTldrMessage(c1, r, p, Msg(IF Len(c1.runs[r].tldrText) > 0
                                       THEN "complete" ELSE "error", <<>>))
      ELSE c1

\* The onDisconnect listeners of the ports p..n that are connected; a port
\* that a listener opens connects to a new worker.
RECURSIVE DisconnectFrom(_, _, _)
DisconnectFrom(cs, p, n) ==
  IF p > n THEN cs
  ELSE IF cs.ports[p].open /\ cs.ports[p].owner # 0
       THEN DisconnectFrom(OnDisconnect(cs, cs.ports[p].owner, p), p + 1, n)
       ELSE DisconnectFrom(cs, p + 1, n)

\* The browser stops the service worker (it does so with an idle or
\* long-running worker, or when the extension is reloaded): its calls end,
\* its sessions and variables are gone, and every port connected to it is
\* disconnected, after the messages already posted have been dispatched.
WorkerStops ==
  /\ faultsLeft > 0
  /\ faultsLeft' = faultsLeft - 1
  /\ \E p \in 1..Len(ports) : ports[p].open /\ ports[p].owner # 0
  /\ \A p \in 1..Len(ports) : ports[p].open => ports[p].toCs = <<>>
  /\ tasks' = [t \in 1..Len(tasks) |->
                 IF tasks[t].pc # "done" THEN Ended(t, "") ELSE tasks[t]]
  /\ currentSession' = 0 /\ currentController' = 0
  /\ destroyed' = destroyed \cup 1..nSessions
  /\ SetCS(DisconnectFrom([CS EXCEPT !.ports =
                              [q \in 1..Len(ports) |-> [ports[q] EXCEPT !.toBg = <<>>]]],
                          1, Len(ports)))
  /\ UNCHANGED <<parseVars, sumVars, splitVars, prompts, mode, nChunks, runsLeft,
                 snapshotsLeft, itemsLeft, envMsgs, aborted, nSessions,
                 csController, csAborted>>

\* A click on "Continue Processing" (or a click event with its id) while no
\* click listener is registered: before a prompt, or after it while the
\* setTimeout of waitForContinue is pending.  Nothing handles it.
ClickIgnored ==
  /\ Len(runs) > 0
  /\ \A r \in 1..Len(runs) : runs[r].listening # "on" /\ runs[r].ignored < MaxIgnored
  /\ runs' = [r \in 1..Len(runs) |-> [runs[r] EXCEPT !.ignored = @ + 1]]
  /\ UNCHANGED <<parseVars, sumVars, splitVars, prompts, envVars, bgVars, ports, port,
                 csController, csAborted>>

IdleParse == /\ outItems = <<>> /\ fullOut = <<>> /\ buffer = <<>>
             /\ parsed = Result(<<>>, Null)
InitEnv(nRuns, nSnapshots, nItems, nFaults) ==
  /\ mode \in {"cumulative", "delta"}
  /\ runsLeft = nRuns /\ snapshotsLeft = nSnapshots /\ itemsLeft = nItems
  /\ faultsLeft = nFaults /\ envMsgs = 0
InitBackground == /\ currentSession = 0 /\ currentController = 0 /\ aborted = {}
                  /\ tasks = <<>> /\ nSessions = 0 /\ destroyed = {}
InitContent == port = 0 /\ csController = 0 /\ csAborted = {} /\ runs = <<>>
InitSummarizer == /\ sumCalls = <<>> /\ creates = <<>>
                  /\ sumController = 0 /\ sumAborted = {}
IdleSplit == /\ splitIn = [text |-> <<>>, maxChunkSize |-> 1]
             /\ splitOut = [pc |-> "done", err |-> "", chunks |-> <<>>]
             /\ prompts = <<>>
IdleSum == sumVariant = "plain" /\ InitSummarizer /\ IdleSplit
IdleEnv == /\ mode = "cumulative" /\ nChunks = 1
           /\ runsLeft = 0 /\ snapshotsLeft = 0 /\ itemsLeft = 0 /\ envMsgs = 0
IdleRest == /\ IdleEnv /\ faultsLeft = 0
            /\ InitBackground /\ InitContent /\ ports = <<>> /\ IdleSum

\* ------------------------------------------------- reconciler on a stream
\* outItems: the raw field pairs of the objects the model writes; fullOut:
\* the text of their array; buffer: the part of it received so far.
InitParse ==
  /\ outItems \in ParseItemSeqs
  /\ fullOut \in ParseOutputs(outItems)
  /\ buffer = <<>>
  /\ parsed = parseStreamingJSON(<<>>)
  /\ IdleRest

\* The buffer grows by one character and is reconciled again.
Grow ==
  /\ Len(buffer) < Len(fullOut)
  /\ buffer' = SubSeq(fullOut, 1, Len(buffer) + 1)
  /\ parsed' = parseStreamingJSON(buffer')
  /\ UNCHANGED <<outItems, fullOut, envVars, bgVars, ports, csVars, sumVars, splitVars, prompts>>

NextParse == Grow

SpecParse == InitParse /\ [][NextParse]_vars

\* ------------------------------------- the background under any clients
InitBg ==
  /\ IdleParse /\ InitEnv(0, MaxSnapshots, MaxItems, MaxFaults)
  /\ InitBackground /\ InitContent /\ IdleSum
  /\ nChunks = 1
  /\ ports = [p \in 1..MaxEnvPorts |-> NewPort(0, "env", 0, <<>>)]

NextBg ==
  \/ \E p \in 1..MaxEnvPorts, type \in {"summarize", "prompt", "abort", "destroy"} :
       EnvSend(p, type)
  \/ \E p \in 1..MaxEnvPorts : BgReceive(p)
  \/ \E t \in 1..MaxEnvMsgs : TaskAvail(t) \/ TaskCreate(t) \/ StreamYield(t)
                              \/ StreamDone(t) \/ StreamThrow(t)

SpecBg == InitBg /\ [][NextBg]_vars

\* ------------------------------- content script runs with the background
MaxPorts == MaxRuns * (MaxSegments + 1)
MaxTasks == MaxPorts

InitRun ==
  /\ IdleParse /\ InitEnv(1, MaxSnapshots, MaxItems, MaxFaults)
  /\ InitBackground /\ InitContent /\ IdleSum
  /\ nChunks \in 1..MaxSegments
  /\ ports = <<>>

InitAbort ==
  /\ IdleParse /\ InitEnv(MaxRuns, AbortSnapshots, AbortItems, AbortFaults)
  /\ InitBackground /\ InitContent /\ IdleSum
  /\ nChunks \in 1..AbortSegments
  /\ ports = <<>>

NextRun ==
  \/ StartRun
  \/ \E p \in 1..MaxPorts : Deliver(p) \/ BgReceive(p)
  \/ \E r \in 1..MaxRuns : AddClickListener(r)
  \/ ClickContinue
  \/ \E t \in 1..MaxTasks : TaskAvail(t) \/ TaskCreate(t) \/ StreamYield(t)
                            \/ StreamDone(t) \/ StreamThrow(t)

Spec == InitRun /\ [][NextRun]_vars

SpecAbort == InitAbort /\ [][NextRun]_vars

\* One run with clicks at any time.
InitClick ==
  /\ IdleParse /\ InitEnv(1, ClickSnapshots, ClickItems, ClickFaults)
  /\ InitBackground /\ InitContent /\ IdleSum
  /\ nChunks \in 1..ClickSegments
  /\ ports = <<>>

NextClick == NextRun \/ ClickIgnored

SpecClick == InitClick /\ [][NextClick]_vars

\* One run with a service worker that the browser may stop.
InitStop ==
  /\ IdleParse /\ InitEnv(1, StopSnapshots, StopItems, StopFaults)
  /\ InitBackground /\ InitContent /\ IdleSum
  /\ nChunks \in 1..StopSegments
  /\ ports = <<>>

NextStop == NextRun \/ WorkerStops

SpecStop == InitStop /\ [][NextStop]_vars

\* ------------------------------------------- handleSummarization (Summarizer)
\* sumVariant: "plain" is src/src/modules/summarizer.js; "abortable" is the
\* version of the same function that keeps a module-level AbortController.
\* One call: config, its config.length; pc, the await it is suspended at
\* ("avail", "create", "stream": summarizeStreaming, "loop": the for await)
\* or "done"; sink, its onUpdate calls; chunks, the chunks its stream has
\* yielded; downloaded, the monitor has reported progress; mark, the length
\* of sink when a later call started while this one was in flight (-1: none);
\* created, its Summarizer.create has resolved with an instance; destroys, the
\* calls of destroy() on that instance.
Configs == {"short", "long"}

NewCall(c) ==
  [config |-> c, pc |-> "avail", sink |-> <<"loading">>, chunks |-> 0,
   downloaded |-> FALSE, mark |-> -1, created |-> FALSE, destroys |-> 0]

\* signal.aborted of call k (the plain version has no signal).
SumAbortedAt(k) == sumVariant = "abortable" /\ k \in sumAborted

SumUpdate(k, kind, pc) ==
  sumCalls' = [sumCalls EXCEPT ![k].sink = Append(@, kind), ![k].pc = pc]

SumReturn(k) == sumCalls' = [sumCalls EXCEPT ![k].pc = "done"]

\* summarizer.destroy() followed by the end of the call.
SumDestroyReturn(k) ==
  sumCalls' = [sumCalls EXCEPT ![k].created = TRUE, ![k].destroys = @ + 1,
                               ![k].pc = "done"]

\* handleSummarization(config, onUpdate, ...) up to await availability().
SumStart(c) ==
  /\ Len(sumCalls) < MaxSumCalls
  /\ sumCalls' = Append([k \in 1..Len(sumCalls) |->
                           IF sumCalls[k].pc # "done" /\ sumCalls[k].mark = -1
                           THEN [sumCalls[k] EXCEPT !.mark = Len(sumCalls[k].sink)]
                           ELSE sumCalls[k]],
                        NewCall(c))
  /\ IF sumVariant = "abortable"
     THEN /\ sumAborted' = IF sumController # 0 THEN sumAborted \cup {sumController}
                           ELSE sumAborted
          /\ sumController' = Len(sumCalls) + 1
     ELSE UNCHANGED <<sumAborted, sumController>>
  /\ UNCHANGED <<parseVars, splitVars, prompts, envVars, bgVars, ports, csVars, sumVariant, creates>>

\* await self.Summarizer.availability() returns; then Summarizer.create(...).
SumAvail(k) ==
  /\ k \in 1..Len(sumCalls)
  /\ sumCalls[k].pc = "avail"
  /\ IF SumAbortedAt(k)
     THEN SumReturn(k) /\ UNCHANGED <<creates, faultsLeft>>
     ELSE \/ /\ faultsLeft > 0
             /\ faultsLeft' = faultsLeft - 1
             /\ SumUpdate(k, "error", "done")
             /\ UNCHANGED creates
          \/ /\ creates' = Append(creates, [call |-> k, config |-> sumCalls[k].config])
             /\ sumCalls' = [sumCalls EXCEPT ![k].pc = "create"]
             /\ UNCHANGED faultsLeft
  /\ UNCHANGED <<parseVars, splitVars, prompts, mode, nChunks, runsLeft, snapshotsLeft, itemsLeft, envMsgs,
                 bgVars, ports, csVars, sumVariant, sumController, sumAborted>>

\* The monitor's downloadprogress listener.
SumDownload(k) ==
  /\ k \in 1..Len(sumCalls)
  /\ sumCalls[k].pc = "create"
  /\ ~sumCalls[k].downloaded
  /\ sumCalls' = [sumCalls EXCEPT ![k].downloaded = TRUE,
                                  ![k].sink = IF SumAbortedAt(k) THEN @
                                              ELSE Append(@, "downloading")]
  /\ UNCHANGED <<parseVars, splitVars, prompts, envVars, bgVars, ports, csVars,
                 sumVariant, creates, sumController, sumAborted>>

\* await Summarizer.create(...) resolves; then await summarizeStreaming(...).
SumCreated(k) ==
  /\ k \in 1..Len(sumCalls)
  /\ sumCalls[k].pc = "create"
  /\ IF SumAbortedAt(k) THEN SumDestroyReturn(k)
     ELSE sumCalls' = [sumCalls EXCEPT ![k].created = TRUE,
                                       ![k].sink = Append(@, "reading"),
                                       ![k].pc = "stream"]
  /\ UNCHANGED <<parseVars, splitVars, prompts, envVars, bgVars, ports, csVars,
                 sumVariant, creates, sumController, sumAborted>>

\* await summarizer.summarizeStreaming(...) resolves.
SumStreamOpen(k) ==
  /\ k \in 1..Len(sumCalls)
  /\ sumCalls[k].pc = "stream"
  /\ sumCalls' = [sumCalls EXCEPT ![k].pc = "loop"]
  /\ UNCHANGED <<parseVars, splitVars, prompts, envVars, bgVars, ports, csVars,
                 sumVariant, creates, sumController, sumAborted>>

\* for await (const chunk of stream): one more chunk.
SumChunk(k) ==
  /\ k \in 1..Len(sumCalls)
  /\ sumCalls[k].pc = "loop"
  /\ sumCalls[k].chunks < MaxSumChunks
  /\ IF SumAbortedAt(k) THEN SumDestroyReturn(k)
     ELSE sumCalls' = [sumCalls EXCEPT ![k].sink = Append(@, "content"),
                                       ![k].chunks = @ + 1]
  /\ UNCHANGED <<parseVars, splitVars, prompts, envVars, bgVars, ports, csVars,
                 sumVariant, creates, sumController, sumAborted>>

\* The stream ends: summarizer.destroy().
SumEnd(k) ==
  /\ k \in 1..Len(sumCalls)
  /\ sumCalls[k].pc = "loop"
  /\ SumDestroyReturn(k)
  /\ UNCHANGED <<parseVars, splitVars, prompts, envVars, bgVars, ports, csVars,
                 sumVariant, creates, sumController, sumAborted>>

\* An await rejects: an AbortError of the call's aborted signal is ignored,
\* any other error is reported.
SumThrow(k) ==
  /\ k \in 1..Len(sumCalls)
  /\ sumCalls[k].pc \in {"create", "stream", "loop"}
  /\ \/ /\ SumAbortedAt(k)
        /\ SumReturn(k)
        /\ UNCHANGED faultsLeft
     \/ /\ faultsLeft > 0
        /\ faultsLeft' = faultsLeft - 1
        /\ SumUpdate(k, "error", "done")
  /\ UNCHANGED <<parseVars, splitVars, prompts, mode, nChunks, runsLeft, snapshotsLeft, itemsLeft, envMsgs,
                 bgVars, ports, csVars, sumVariant, creates, sumController, sumAborted>>

InitSum ==
  /\ IdleParse /\ IdleEnv /\ faultsLeft = MaxFaults
  /\ InitBackground /\ InitContent /\ ports = <<>>
  /\ sumVariant \in {"plain", "abortable"}
  /\ InitSummarizer /\ IdleSplit

NextSum ==
  \/ \E c \in Configs : SumStart(c)
  \/ \E k \in 1..MaxSumCalls : SumAvail(k) \/ SumDownload(k) \/ SumCreated(k)
                               \/ SumStreamOpen(k) \/ SumChunk(k) \/ SumEnd(k)
                               \/ SumThrow(k)

SpecSum == InitSum /\ [][NextSum]_vars

\* ---------------------------------------------------------- splitIntoChunks
\* The value of a call: the chunks, or the error it threw.
Chunks(cs) == [err |-> "", chunks |-> cs]
RangeError == [err |-> "RangeError", chunks |-> <<>>]

\* FitsChunk letting one more character through.
FitsChunk_Loose(text, m) == Len(text) <= m + 1
\* text.length <= maxChunkSize
FitsChunk(text, m) == Len(text) <= m
\* A cut at a quarter of the text.
Midpoint_Quarter(text) == Len(text) \div 4
\* A cut at a third of the text.
Midpoint_Third(text) == Len(text) \div 3
\* Math.floor(text.length / 2)
Midpoint(text) == Len(text) \div 2
\* text.substring(0, midpoint) and text.substring(midpoint)
FirstHalf(text, midpoint) == SubSeq(text, 1, midpoint)
\* SecondHalf starting one character late.
SecondHalf_Skip(text, midpoint) == SubSeq(text, midpoint + 2, Len(text))
SecondHalf(text, midpoint) == SubSeq(text, midpoint + 1, Len(text))

\* [...a, ...b]: the first call is evaluated first and its error propagates.
Spread(a, b) ==
  IF a.err # "" THEN a ELSE IF b.err # "" THEN b ELSE Chunks(a.chunks \o b.chunks)

\* The call at stack depth d; past MaxStack the engine throws a RangeError
\* (Maximum call stack size exceeded).
RECURSIVE SplitFrom(_, _, _)
SplitFrom(text, m, d) ==
  IF d > MaxStack THEN RangeError
  ELSE IF FitsChunk(text, m) THEN Chunks(<<text>>)
  ELSE Spread(SplitFrom(FirstHalf(text, Midpoint(text)), m, d + 1),
              SplitFrom(SecondHalf(text, Midpoint(text)), m, d + 1))

splitIntoChunks(text, maxChunkSize) == SplitFrom(text, maxChunkSize, 1)

Texts == UNION { [1..n -> {"a", "b"}] : n \in 0..MaxTextLen }

\* extractText(20000), and the texts the tests split with it: 'b'.repeat(21000),
\* 'a'.repeat(50000) and 'a'.repeat(21000 * 7).
DefaultMaxChunkSize == 20000
TestLengths == {21000, 50000, 21000 * 7}
\* chunks.length of each of them
TestCounts ==
  [n \in TestLengths |->
     Len(splitIntoChunks([j \in 1..n |-> "a"], DefaultMaxChunkSize).chunks)]

InitSplit ==
  /\ IdleParse /\ IdleEnv /\ faultsLeft = 0
  /\ InitBackground /\ InitContent /\ ports = <<>>
  /\ sumVariant = "plain" /\ InitSummarizer
  /\ prompts = <<>>
  /\ splitIn \in [text : Texts, maxChunkSize : (0 - MaxNegSize)..MaxChunkSize]
  /\ splitOut = [pc |-> "call", err |-> "", chunks |-> <<>>]

\* splitIntoChunks(text, maxChunkSize) returns or throws.
CallSplit ==
  /\ splitOut.pc = "call"
  /\ splitOut' = [pc |-> "done"] @@ splitIntoChunks(splitIn.text, splitIn.maxChunkSize)
  /\ UNCHANGED <<parseVars, envVars, bgVars, ports, csVars, sumVars, splitIn, prompts>>

NextSplit == CallSplit

SpecSplit == InitSplit /\ [][NextSplit]_vars

\* ------------------------------------------------------- prompt templates
\* A JavaScript value interpolated into a template: a number, undefined, or
\* a member inherited from Object.prototype.
Num(n) == [k |-> "number", n |-> n]
Undefined == [k |-> "undefined", n |-> 0]
Inherited(key) == [k |-> IF key = "__proto__" THEN "object" ELSE "function", n |-> 0]
ObjectPrototypeKeys ==
  {"constructor", "toString", "toLocaleString", "valueOf", "hasOwnProperty",
   "isPrototypeOf", "propertyIsEnumerable", "__proto__"}

\* { short: 3, medium: 5, long: 7 }
LengthToNumberMap == [short |-> 3, medium |-> 5, long |-> 7]

\* map[key] on an object literal: an own property, else what the prototype
\* chain gives for the key, else undefined.
Lookup(map, key) ==
  IF key \in DOMAIN map THEN Num(map[key])
  ELSE IF key \in ObjectPrototypeKeys THEN Inherited(key)
  ELSE Undefined

\* v || d
OrElse(v, d) == IF v.k = "undefined" \/ (v.k = "number" /\ v.n = 0) THEN d ELSE v

\* const numPoints = { short: 3, medium: 5, long: 7 }[length] || 5
numPoints(length) == OrElse(Lookup(LengthToNumberMap, length), Num(5))

\* const maxSentences = length === 'short' ? 1 : length === 'medium' ? 2 : 3
maxSentences(length) ==
  IF length = "short" THEN Num(1) ELSE IF length = "medium" THEN Num(2) ELSE Num(3)

\* The length values of a request; "undefined" is a request without one.
Lengths == {"short", "medium", "long", "invalid", "", "undefined", "constructor",
            "__proto__"}

InitPrompt ==
  /\ IdleParse /\ IdleEnv /\ faultsLeft = 0
  /\ InitBackground /\ InitContent /\ ports = <<>>
  /\ IdleSum

\* handleSummarize builds the prompt of a chunk.
BuildSummarizePrompt(length) ==
  /\ Len(prompts) < MaxPrompts
  /\ prompts' = Append(prompts, [kind |-> "summarize", length |-> length,
                                 count |-> numPoints(length)])
  /\ UNCHANGED <<parseVars, envVars, bgVars, ports, csVars, sumVars, splitVars>>

\* generateTLDR builds the prompt of the synopsis.
BuildTldrPrompt(length) ==
  /\ Len(prompts) < MaxPrompts
  /\ prompts' = Append(prompts, [kind |-> "tldr", length |-> length,
                                 count |-> maxSentences(length)])
  /\ UNCHANGED <<parseVars, envVars, bgVars, ports, csVars, sumVars, splitVars>>

NextPrompt ==
  \E length \in Lengths : BuildSummarizePrompt(length) \/ BuildTldrPrompt(length)

SpecPrompt == InitPrompt /\ [][NextPrompt]_vars

\* ----------------------------------------------------------------- claims
\* C1: parseStreamingJSON is monotone on a growing buffer: the completeItems
\* of a buffer are a prefix of the completeItems of every extension of it.
C1_Monotone == [][IsPrefix(parsed.completeItems, parsed'.completeItems)]_vars

\* The ports of the text chunks of run r, and the positions of the error
\* updates in its sink.
SegPorts(r) == {p \in 1..Len(ports) : ports[p].owner = r /\ ports[p].kind = "seg"}
ErrorUpdates(r) == {j \in 1..Len(runs[r].sink) : runs[r].sink[j].isError}

\* C2: for each segment whose 'complete' message carried a valid JSON array
\* A, the items the segment appended to allKeyPoints are exactly the elements
\* of A in order, each once, however the output was split into chunks.
AppendedIs(appended, finalItems) ==
  (finalItems.ok /\ finalItems.v.k = "arr") => appended = finalItems.v.c
C2_CompleteExact ==
  \A p \in 1..Len(ports) :
    (ports[p].kind = "seg" /\ ports[p].completed)
      => AppendedIs(ports[p].appended, JSONParse(ports[p].accumulatedText))

\* C3: within a run allKeyPoints is append-only: at every step its previous
\* value is a prefix of its new value.
C3_AppendOnly ==
  [][\A r \in 1..Len(runs) : IsPrefix(runs[r].allKeyPoints, runs'[r].allKeyPoints)]_vars
\* Two segments of one run have each appended items.
C3_Witness ==
  \E r \in 1..Len(runs) : \E p, q \in SegPorts(r) :
    p # q /\ Len(ports[p].appended) > 0 /\ Len(ports[q].appended) > 0

\* C4: once the signal of a run's AbortController is aborted, the run makes
\* no further call of onUpdate.
C4_SilentAfterAbort ==
  [][\A r \in 1..Len(runs) : r \in csAborted => runs'[r].sink = runs[r].sink]_vars
\* An aborted run that had collected items has left its loop and returned.
C4_Witness ==
  \E r \in csAborted : runs[r].pc = "done" /\ Len(runs[r].allKeyPoints) > 0

\* C5: when a second handleSummarization call starts while the first is in
\* flight, exactly one Summarizer.create call is made, with the second call's
\* parameters, and the first call makes no content update from then on.
C5_SecondWins ==
  (Len(sumCalls) = 2 /\ sumCalls[1].mark >= 0) =>
     /\ Len(creates) <= 1
     /\ \A j \in 1..Len(creates) :
          creates[j].call = 2 /\ creates[j].config = sumCalls[2].config
     /\ sumCalls[2].pc \in {"create", "stream", "loop"} => Len(creates) = 1
     /\ \A j \in (sumCalls[1].mark + 1)..Len(sumCalls[1].sink) :
          sumCalls[1].sink[j] # "content"

\* C6: in the background at most one streaming generation is active on the
\* session at any time (a generation whose signal is aborted or whose session
\* is destroyed is not counted).
Generating(t) ==
  tasks[t].pc = "stream" /\ ~IsAborted(t) /\ tasks[t].sess \notin destroyed
C6_OneGeneration == Cardinality({t \in 1..Len(tasks) : Generating(t)}) <= 1

\* C7: the promptStreaming call of a handleSummarize is not made while the
\* stream loop of an earlier handleSummarize has not exited.
C7_WaitsForSettle ==
  \A t \in 1..Len(tasks) : \A u \in 1..(t - 1) :
    (tasks[t].kind = "summarize" /\ tasks[u].kind = "summarize"
       /\ tasks[t].pc = "stream")
      => tasks[u].pc # "stream"

\* C8: a non-abort error raised while segment i is streaming gives exactly
\* one error update on the run's sink, that update is the run's last, and no
\* request is sent for a segment after i.
StreamFailed(p) ==
  \E t \in 1..Len(tasks) :
    /\ tasks[t].port = p /\ tasks[t].posted = "error"
    /\ tasks[t].at = "stream" /\ ~tasks[t].cancelled
C8_OneErrorUpdate ==
  \A r \in 1..Len(runs) : \A p \in SegPorts(r) :
    (StreamFailed(p) /\ ~ports[p].open) =>
       /\ Cardinality(ErrorUpdates(r)) = 1
       /\ Last(runs[r].sink).isError
       /\ \A q \in SegPorts(r) : ports[q].seg <= ports[p].seg

\* C9: a cancelled generation is silent: the background posts no 'error'
\* message for a call whose signal was aborted.
C9_CancelledSilent ==
  \A t \in 1..Len(tasks) : tasks[t].cancelled => tasks[t].posted # "error"

\* C10: a checkpoint prompt is emitted before segment index i exactly when
\* i > 0, i is a multiple of 5 and i < n, and it reports n - i remaining; a
\* run of at most 5 segments has none, a run of 8 has one, before index 5,
\* reporting 3.
CheckpointDue(i, n) == i > 0 /\ i % 5 = 0 /\ i < n
Checkpoints(r) == {j \in 1..Len(runs[r].sink) : runs[r].sink[j].kind = "checkpoint"}
C10_Checkpoints ==
  \A r \in 1..Len(runs) :
    LET n == runs[r].n
        sink == runs[r].sink
    IN  /\ \A j \in Checkpoints(r) :
             /\ CheckpointDue(n - sink[j].arg, n)
             /\ j < Len(sink) =>
                  sink[j + 1].kind = "progress" /\ sink[j + 1].arg = n - sink[j].arg + 1
        /\ \A j \in 1..Len(sink) :
             sink[j].kind = "progress" =>
               (CheckpointDue(sink[j].arg - 1, n)
                  <=> (j - 1 \in Checkpoints(r) /\ sink[j - 1].arg = n - (sink[j].arg - 1)))
        /\ n <= 5 => Checkpoints(r) = {}
        /\ n = 8 => /\ Cardinality(Checkpoints(r)) <= 1
                    /\ \A j \in Checkpoints(r) : sink[j].arg = 3
                    /\ runs[r].i > 5 => Checkpoints(r) # {}
\* A run of 8 segments is past index 5 and its sink holds the prompt.
C10_Witness ==
  \E r \in 1..Len(runs) :
    runs[r].n = 8 /\ runs[r].i > 5 /\ \E j \in Checkpoints(r) : runs[r].sink[j].arg = 3

\* C11: after a checkpoint prompt before segment i, no 'summarize' request for
\* segment i or a later one is sent until a click on the continue button has
\* been taken after that prompt: a run has taken a click for every due
\* checkpoint at or before each segment it has requested, and never more
\* clicks than it has emitted prompts.
DueUpTo(i, n) == {k \in 1..i : CheckpointDue(k, n)}
C11_ResumeBeforeSegment ==
  \A r \in 1..Len(runs) :
    /\ runs[r].resumes <= Cardinality(Checkpoints(r))
    /\ \A p \in SegPorts(r) :
         Cardinality(DueUpTo(ports[p].seg, runs[r].n)) <= runs[r].resumes
\* A run has requested segment 5 after its checkpoint and one click.
C11_Witness ==
  \E r \in 1..Len(runs) : \E p \in SegPorts(r) :
    ports[p].seg = 5 /\ runs[r].resumes = 1 /\ Checkpoints(r) # {}

\* C12: a run stays cancellable while suspended at a checkpoint: when its
\* signal is aborted during waitForContinue it leaves the wait without a
\* click, so no run whose signal is aborted is left suspended there.
C12_CancellableWait ==
  \A r \in 1..Len(runs) : r \in csAborted => runs[r].pc # "wait"

\* The chunks of a finished call of splitIntoChunks joined in order.
RECURSIVE Joined(_)
Joined(cs) == IF Len(cs) = 0 THEN <<>> ELSE Head(cs) \o Joined(Tail(cs))
Returned == splitOut.pc = "done" /\ splitOut.err = ""

\* C13: for every string s and every maxChunkSize m >= 1, splitIntoChunks
\* returns, and its chunks concatenated in order are exactly s.
C13_ConcatIsText ==
  (splitOut.pc = "done" /\ splitIn.maxChunkSize >= 1)
    => Returned /\ Joined(splitOut.chunks) = splitIn.text
\* A text of odd length was split into three or more chunks.
C13_Witness ==
  Returned /\ splitIn.maxChunkSize >= 1 /\ Len(splitIn.text) = 5
  /\ Len(splitOut.chunks) >= 3

\* C14: for every string s and every m >= 1, every chunk of
\* splitIntoChunks(s, m) has length at most m.
C14_ChunkAtMostMax ==
  (Returned /\ splitIn.maxChunkSize >= 1)
    => \A j \in 1..Len(splitOut.chunks) : Len(splitOut.chunks[j]) <= splitIn.maxChunkSize
\* A split whose chunks are one of the maximum size and one shorter.
C14_Witness ==
  /\ Returned /\ splitIn.maxChunkSize >= 1
  /\ \E j, k \in 1..Len(splitOut.chunks) :
       /\ Len(splitOut.chunks[j]) = splitIn.maxChunkSize
       /\ Len(splitOut.chunks[k]) < splitIn.maxChunkSize

\* C15: for every text and every maxChunkSize <= 0, splitIntoChunks fails
\* (it throws) instead of returning chunks.
C15_RejectsNonPositive ==
  (splitOut.pc = "done" /\ splitIn.maxChunkSize <= 0) => splitOut.err # ""

\* C16: no chunk returned by splitIntoChunks is empty, for every text and
\* every maxChunkSize >= 1.
C16_NoEmptyChunk ==
  (Returned /\ splitIn.maxChunkSize >= 1)
    => \A j \in 1..Len(splitOut.chunks) : Len(splitOut.chunks[j]) > 0

\* The value JSON.parse gives a string written with the raw characters raw:
\* an escaped backslash is one backslash.
RECURSIVE Unescape(_)
Unescape(raw) ==
  IF Len(raw) = 0 THEN <<>>
  ELSE IF raw[1] = BS /\ Len(raw) > 1
       THEN <<raw[2]>> \o Unescape(SubSeq(raw, 3, Len(raw)))
       ELSE <<raw[1]>> \o Unescape(Tail(raw))
\* The array element written as ItemText(it[1], it[2]).
Element(it) ==
  Obj(<<Mem(<<KT>>, Str(Unescape(it[1]))), Mem(<<KO>>, Str(Unescape(it[2])))>>)

\* C17: when the buffer, trimmed of whitespace, is a complete JSON array of n
\* valid items, parseStreamingJSON returns no partialItem and completeItems
\* equal to the n elements in order.
C17_CompleteArray ==
  buffer \in {ArrayText(outItems), <<SP>> \o ArrayText(outItems) \o <<SP>>} =>
    parsed = Result([j \in 1..Len(outItems) |-> Element(outItems[j])], Null)
\* A whole array of three items with whitespace around it, one item holding
\* an escaped backslash, has been reconciled.
C17_Witness ==
  /\ buffer = fullOut /\ Len(buffer) > 0 /\ buffer[1] = SP
  /\ Len(parsed.completeItems) >= 3
  /\ \E j \in 1..Len(parsed.completeItems) :
       GetMember(parsed.completeItems[j], <<KT>>) = Str(<<BS>>)

\* C18: parseStreamingJSON throws for no buffer: it always returns a result
\* {completeItems, partialItem}, and whenever JSON.parse fails (on the text
\* as it is or on the repaired text) the result is the regex scan's.
C18_NeverThrows ==
  /\ DOMAIN parsed = {"completeItems", "partialItem"}
  /\ ~JSONParse(TextToParse(buffer)).ok => parsed = RegexTier(buffer)
\* A buffer ending in ']' that JSON.parse rejected, from which the regex scan
\* still recovered a partial item.
C18_Witness ==
  /\ IsComplete(buffer) /\ ~JSONParse(TextToParse(buffer)).ok
  /\ DOMAIN parsed = {"completeItems", "partialItem"}
  /\ parsed.partialItem # Null

\* C19: while no destroy has been processed, requests handled one after
\* another create the model session at most once: once created it stays the
\* current session, every later request streams from it, and the
\* disconnects of the requests' ports leave it in place.
C19_SessionReused ==
  destroyed = {} =>
    /\ nSessions <= 1
    /\ nSessions = 1 => currentSession = 1
    /\ \A t \in 1..Len(tasks) : tasks[t].sess # 0 => tasks[t].sess = currentSession
\* A later request streams from the session of an earlier request whose
\* port has been disconnected.
C19_Witness ==
  /\ destroyed = {} /\ nSessions = 1
  /\ \E t1, t2 \in 1..Len(tasks) :
       /\ t1 < t2
       /\ tasks[t1].sess = currentSession /\ ~ports[tasks[t1].port].open
       /\ tasks[t2].sess = currentSession /\ tasks[t2].pc = "stream"

\* C20: a request whose availability check reports the model unavailable
\* ends with an error posted to its caller and stores no session; a request
\* that arrives while there is no session checks availability again.
C20_UnavailableFails ==
  [][/\ \A t \in 1..Len(tasks) :
          (tasks[t].pc = "avail" /\ tasks'[t].pc = "done") =>
            /\ tasks'[t].posted = "error"
            /\ currentSession' = currentSession /\ nSessions' = nSessions
     /\ (Len(tasks') > Len(tasks) /\ currentSession = 0
           /\ CanPost(tasks'[Len(tasks')].port)) =>
          tasks'[Len(tasks')].pc = "avail"]_vars
\* A request failed at the availability check and a later request, having
\* checked again, streams from a session.
C20_Witness ==
  \E t1, t2 \in 1..Len(tasks) :
    /\ t1 < t2
    /\ tasks[t1].at = "avail" /\ tasks[t1].posted = "error" /\ tasks[t1].sess = 0
    /\ tasks[t2].pc = "stream" /\ tasks[t2].sess = currentSession

\* The step is the processing of a 'destroy' message.
DestroyStep ==
  \E p \in 1..Len(ports) :
    /\ Len(ports[p].toBg) > 0 /\ Head(ports[p].toBg).type = "destroy"
    /\ ports'[p].toBg = Tail(ports[p].toBg)

C22_OneAtATime ==
  \A r \in 1..Len(runs) :
    \A p, q \in SegPorts(r) :
      p < q =>
        /\ ports[q].seg > ports[p].seg
        /\ \E m \in SegPorts(r) : ports[m].seg + 1 = ports[q].seg
        /\ ports[p].completed /\ ~ports[p].open
        /\ \A t \in 1..Len(tasks) : tasks[t].port = p => tasks[t].pc = "done"
\* The third chunk of a run is streaming after the first two settled.
C22_Witness ==
  \E r \in 1..Len(runs) : \E q \in SegPorts(r) :
    /\ ports[q].seg = 2 /\ ports[q].open /\ ~ports[q].completed
    /\ \E t \in 1..Len(tasks) : tasks[t].port = q /\ tasks[t].pc = "stream"
    /\ Cardinality({p \in SegPorts(r) : ports[p].completed}) = 2

\* The ports of generateTLDR of run r, and those whose request failed.
TldrPorts(r) == {p \in 1..Len(ports) : ports[p].owner = r /\ ports[p].kind = "tldr"}
TldrFailed(r) ==
  \E p \in TldrPorts(r) : \E t \in 1..Len(tasks) :
    tasks[t].port = p /\ tasks[t].posted = "error"

\* C23: when the TLDR generation of a run fails after all its chunks
\* completed, the run pushes no error update, and its last update stays the
\* final rendering of all the key points collected.
C23_TldrFailureIsolated ==
  \A r \in 1..Len(runs) :
    TldrFailed(r) =>
      /\ ErrorUpdates(r) = {}
      /\ runs[r].sink[Len(runs[r].sink)].kind = "final"
      /\ runs[r].html = [items |-> runs[r].allKeyPoints, partialCount |-> 0]
\* A run has ended after the error of its TLDR request was handled.
C23_Witness ==
  \E r \in 1..Len(runs) :
    /\ TldrFailed(r) /\ runs[r].pc = "done"
    /\ \A p \in TldrPorts(r) : ~ports[p].open
    /\ Len(runs[r].allKeyPoints) > 0

\* C24: when the stream yields cumulative snapshots, the buffer the content
\* script has passed to parseStreamingJSON once it has handled every chunk
\* posted so far is the model's output of the segment up to the last
\* snapshot.
C24_BufferIsCumulative ==
  mode = "cumulative" =>
    \A t \in 1..Len(tasks) :
      LET p == tasks[t].port
      IN  (tasks[t].kind = "summarize" /\ tasks[t].pc = "stream" /\ tasks[t].pos > 0
           /\ ports[p].open /\ ports[p].toCs = <<>>)
            => ports[p].accumulatedText = SubSeq(tasks[t].out, 1, tasks[t].pos)

\* C25: the number of summary items a chunk's prompt asks for is 3 for
\* 'short', 5 for 'medium', 7 for 'long' and 5 for every other length value,
\* a missing one included.
C25_NumPoints ==
  \A j \in 1..Len(prompts) :
    prompts[j].kind = "summarize" =>
      prompts[j].count = Num(CASE prompts[j].length = "short" -> 3
                               [] prompts[j].length = "long" -> 7
                               [] OTHER -> 5)

\* The output of its cut after its k-th object.
OpenArray(its, k) == <<LB>> \o JoinItems(SubSeq(its, 1, k))
Elements(its, k) == [j \in 1..k |-> Element(its[j])]

\* C26: for a buffer that does not end with ']', whenever the repaired text
\* parses as an array of k elements the result is the first k-1 elements as
\* completeItems and the k-th as partialItem (nothing for k = 0), whatever
\* the regex scan would find: a buffer cut after its k-th object, with or
\* without the comma that follows, gives the first k-1 objects and the k-th.
C26_RepairTier ==
  LET items == JSONParse(TextToParse(buffer))
  IN  /\ (~IsComplete(buffer) /\ items.ok /\ items.v.k = "arr") =>
           parsed = IF Len(items.v.c) = 0 THEN Result(<<>>, Null)
                    ELSE Result(SubSeq(items.v.c, 1, Len(items.v.c) - 1),
                                items.v.c[Len(items.v.c)])
      /\ \A k \in 1..Len(outItems) :
           (\E lead \in {<<>>, <<SP>>}, tail \in {<<>>, <<CM>>} :
              buffer = lead \o OpenArray(outItems, k) \o tail)
             => parsed = Result(Elements(outItems, k - 1), Element(outItems[k]))
\* The repaired buffer parsed as two objects or more, and the regex scan
\* would have given another result.
C26_Witness ==
  LET items == JSONParse(TextToParse(buffer))
  IN  /\ ~IsComplete(buffer) /\ items.ok /\ items.v.k = "arr" /\ Len(items.v.c) >= 2
      /\ parsed = Result(SubSeq(items.v.c, 1, Len(items.v.c) - 1),
                         items.v.c[Len(items.v.c)])
      /\ parsed # RegexTier(buffer)

\* What the complete-object pattern captures of the object written as
\* ItemText(it[1], it[2]): the raw characters of both fields, when neither
\* is empty.
Matchable(it) == Len(it[1]) > 0 /\ Len(it[2]) > 0
RawItem(it) == Obj(<<Mem(<<KT>>, Str(it[1])), Mem(<<KO>>, Str(it[2]))>>)
RECURSIVE RawMatches(_)
RawMatches(its) ==
  IF Len(its) = 0 THEN <<>>
  ELSE IF Matchable(its[1]) THEN <<RawItem(its[1])>> \o RawMatches(Tail(its))
  ELSE RawMatches(Tail(its))
\* The buffer ends inside the object that follows the k-th object of its.
InsideNext(its, k) ==
  \E lead \in {<<>>, <<SP>>} :
    /\ IsPrefix(lead \o OpenArray(its, k) \o <<CM>>, buffer)
    /\ IsPrefix(buffer, lead \o OpenArray(its, k + 1))
    /\ buffer # lead \o OpenArray(its, k + 1)

\* C27: in the regex fallback, with m >= 1 matches of the complete-object
\* pattern, completeItems are the first m-1 matches in order of appearance
\* and partialItem is the last match, which is never among the finalized:
\* for a buffer that ends inside an object, the matches are the closed
\* objects before it whose two fields are non-empty.
C27_RegexLastIsPartial ==
  ~JSONParse(TextToParse(buffer)).ok =>
    /\ LET all == ExecAll(buffer, 1, <<>>)
       IN  Len(all) >= 1 =>
             /\ parsed = Result(SubSeq(all, 1, Len(all) - 1), all[Len(all)])
             /\ Len(parsed.completeItems) = Len(all) - 1
    /\ \A k \in 1..(Len(outItems) - 1) :
         (InsideNext(outItems, k) /\ Len(RawMatches(SubSeq(outItems, 1, k))) >= 1) =>
           LET ms == RawMatches(SubSeq(outItems, 1, k))
           IN  parsed = Result(SubSeq(ms, 1, Len(ms) - 1), ms[Len(ms)])
\* The regex fallback ran on a buffer with two complete matches.
C27_Witness ==
  /\ ~JSONParse(TextToParse(buffer)).ok
  /\ Len(ExecAll(buffer, 1, <<>>)) = 2
  /\ Len(parsed.completeItems) = 1 /\ parsed.partialItem # Null

\* [{"summary_item_text":" followed by txt
FirstFieldOpen(txt) == <<LB, LC, QT, KT, QT, CL, QT>> \o txt

ClosedIn(its, lead) ==
  {k \in 1..Len(its) : IsPrefix(lead \o OpenArray(its, k), buffer)}

\* C29: parseStreamingJSON reports no more completeItems than there are
\* closed objects in the buffer, and each of them has the field values of a
\* closed object of the buffer.
C29_NoGuessing ==
  \A lead \in {<<>>, <<SP>>} :
    fullOut = lead \o ArrayText(outItems) \o lead =>
      /\ Len(parsed.completeItems) <= Cardinality(ClosedIn(outItems, lead))
      /\ \A j \in 1..Len(parsed.completeItems) :
           \E k \in ClosedIn(outItems, lead) :
             parsed.completeItems[j] = Element(outItems[k])

\* The step hands the 'chunk' message at the head of port p to its listener.
ChunkStep(p) ==
  /\ ports[p].owner # 0 /\ ports[p].kind = "seg" /\ ports[p].open
  /\ Len(ports[p].toCs) > 0 /\ Head(ports[p].toCs).type = "chunk"
  /\ ports'[p].toCs = Tail(ports[p].toCs)

\* C30: for every 'chunk' message handled by a run that is not cancelled,
\* exactly one update is pushed to the sink, and it shows the running
\* collection followed by the current partial item when there is one with
\* non-empty text.
C30_OneUpdatePerChunk ==
  [][\A p \in 1..Len(ports) :
       (ChunkStep(p) /\ ports[p].owner \notin csAborted) =>
         LET r == ports[p].owner
             text == ports[p].accumulatedText \o Head(ports[p].toCs).content
             partial == parseStreamingJSON(text).partialItem
             shown == GetMember(partial, <<KT>>)
         IN  /\ Len(runs'[r].sink) = Len(runs[r].sink) + 1
             /\ ~runs'[r].sink[Len(runs'[r].sink)].isLoading
             /\ ~runs'[r].sink[Len(runs'[r].sink)].isError
             /\ runs'[r].html.items =
                  IF partial # Null /\ shown.k = "str" /\ Len(shown.s) > 0
                  THEN Append(runs'[r].allKeyPoints, partial)
                  ELSE runs'[r].allKeyPoints]_vars
\* The last update of a run shows a collected item followed by a partial one.
C30_Witness ==
  \E r \in 1..Len(runs) :
    /\ r \notin csAborted /\ Len(runs[r].sink) > 0
    /\ runs[r].sink[Len(runs[r].sink)].kind = "items"
    /\ Len(runs[r].allKeyPoints) >= 1
    /\ Len(runs[r].html.items) = Len(runs[r].allKeyPoints) + 1

\* C31: the 'prompt' request of the synopsis is sent at most once per run,
\* after the stream of every segment of the run, the last included, has
\* settled, and only by a run whose signal is not aborted and whose
\* collection of key points is not empty.
C31_SynopsisOnce ==
  [][\A q \in 1..Len(ports') :
       (q > Len(ports) /\ ports'[q].kind = "tldr") =>
         LET r == ports'[q].owner
         IN  /\ ports'[q].toBg = <<Msg("prompt", <<>>)>>
             /\ r \notin csAborted /\ r \notin csAborted'
             /\ Len(runs'[r].allKeyPoints) > 0
             /\ \A p \in 1..Len(ports) : ~(ports[p].owner = r /\ ports[p].kind = "tldr")
             /\ \A i \in 0..(runs'[r].n - 1) :
                  \E p \in 1..Len(ports) :
                    /\ ports[p].owner = r /\ ports[p].kind = "seg" /\ ports[p].seg = i
                    /\ ~ports'[p].open]_vars
\* The second run, over two segments or more, has sent its synopsis request
\* after the first run was cancelled.
C31_Witness ==
  \E r \in 1..Len(runs) :
    /\ r \notin csAborted /\ csAborted # {} /\ runs[r].n >= 2
    /\ \E q \in 1..Len(ports) :
         ports[q].owner = r /\ ports[q].kind = "tldr" /\ Len(ports[q].toBg) = 1

\* count(L) = 1 if L <= m, else count(floor(L/2)) + count(L - floor(L/2))
RECURSIVE Count(_, _)
Count(L, m) == IF L <= m THEN 1 ELSE Count(L \div 2, m) + Count(L - (L \div 2), m)

\* C32: the number of chunks splitIntoChunks returns is count(L) for the
\* length L of the text and maxChunkSize m, whatever the characters of the
\* text: 2 for L = 21000, 4 for L = 50000 and 8 for L = 147000 with m = 20000.
C32_ChunkCount ==
  Returned =>
    /\ Len(splitOut.chunks) = Count(Len(splitIn.text), splitIn.maxChunkSize)
    /\ \A n \in TestLengths : TestCounts[n] = Count(n, DefaultMaxChunkSize)
    /\ TestCounts[21000] = 2 /\ TestCounts[50000] = 4 /\ TestCounts[147000] = 8
\* A text of five characters was split into three chunks, as count(5) is for
\* m = 2; the three texts of the tests are split as well.
C32_Witness ==
  /\ Returned /\ Len(splitIn.text) = 5 /\ splitIn.maxChunkSize = 2
  /\ Len(splitOut.chunks) = 3
  /\ DOMAIN TestCounts = {21000, 50000, 147000}

\* C33: a run disconnects no port but its own.  The listener of a port
\* disconnects before it settles the promise its run awaits, and nothing
\* else in the page or in the background disconnects a port, so a run that
\* is not cancelled and is suspended at await processStream finds the port it
\* opened for that await still connected, whatever an older run does.
C33_OwnPortOnly ==
  \A r \in 1..Len(runs) :
    (r \notin csAborted /\ runs[r].pc = "stream") => ports[runs[r].p].open

\* The sessions created and not destroyed.
LiveSessions == {s \in 1..nSessions : s \notin destroyed}

\* C34: at most one session that was created and not destroyed exists at
\* any time, over every interleaving of 'summarize', 'prompt' and 'destroy'
\* requests: a session that currentSession no longer refers to has been
\* destroyed.
C34_SingleSession ==
  /\ Cardinality(LiveSessions) <= 1
  /\ \A s \in LiveSessions : s = currentSession

\* C35: a run that is never cancelled and whose segment streams have all
\* settled has pushed an update with isLoading = false (a rendering of the
\* collection or an error) by the time it ends, also when a stream settled
\* without a chunk or an item because its port was disconnected first.
C35_TerminalUpdate ==
  \A r \in 1..Len(runs) :
    (runs[r].pc = "done" /\ r \notin csAborted) =>
      \E j \in 1..Len(runs[r].sink) : ~runs[r].sink[j].isLoading

\* The k-th object of its as parseStreamingJSON reports it: parsed, or with
\* the raw characters the regex scan captures.
Reported(its, k) == {Element(its[k]), RawItem(its[k])}

C37_ChunkAtLeastHalf ==
  (splitOut.pc = "done" /\ splitIn.maxChunkSize >= 1
     /\ Len(splitIn.text) > splitIn.maxChunkSize) =>
    /\ Returned
    /\ \A j \in 1..Len(splitOut.chunks) :
         Len(splitOut.chunks[j]) >= (splitIn.maxChunkSize + 1) \div 2
\* A text longer than m = 3 was split, and one of its chunks has exactly
\* floor((m + 1) / 2) = 2 characters.
C37_Witness ==
  /\ Returned /\ splitIn.maxChunkSize = 3 /\ Len(splitIn.text) = 5
  /\ \E j \in 1..Len(splitOut.chunks) : Len(splitOut.chunks[j]) = 2

\* C38: once the signal of a handleSummarize call is aborted, the call posts
\* no 'chunk' and no 'complete' message any more: it takes no further
\* snapshot of its stream to its port and does not end with 'complete'.
C38_NoPostAfterAbort ==
  [][\A t \in 1..Len(tasks) :
       (tasks[t].kind = "summarize" /\ t \in aborted) =>
         LET p == tasks[t].port
         IN  /\ tasks'[t].pos <= tasks[t].pos
             /\ tasks'[t].posted = "complete" => tasks[t].posted = "complete"
             /\ Len(ports'[p].toCs) > Len(ports[p].toCs) =>
                  Last(ports'[p].toCs).type \notin {"chunk", "complete"}]_vars
\* A call whose signal was aborted while it was streaming has ended at its
\* stream loop without a terminal message.
C38_Witness ==
  \E t \in 1..Len(tasks) :
    /\ tasks[t].kind = "summarize" /\ t \in aborted
    /\ tasks[t].pc = "done" /\ tasks[t].at = "stream" /\ tasks[t].cancelled
    /\ tasks[t].posted = ""

\* C39: each checkpoint takes a click of its own.  A run leaves a checkpoint
\* wait only in a step in which the click listener of that wait, registered
\* after its prompt, takes a click; such a step releases that one wait and
\* removes the listener; a click that finds no listener (before the prompt,
\* or after an earlier checkpoint took the previous one) changes nothing of
\* the run, so the clicks a run has taken never exceed its prompts and every
\* checkpoint it has passed has taken one.
C39_OwnResume ==
  [][\A r \in 1..Len(runs) :
       /\ (runs[r].pc = "wait" /\ runs'[r].pc # "wait") =>
            runs[r].listening = "on" /\ runs'[r].resumes = runs[r].resumes + 1
       /\ runs'[r].resumes # runs[r].resumes =>
            /\ runs'[r].resumes = runs[r].resumes + 1
            /\ runs[r].pc = "wait" /\ runs[r].listening = "on"
            /\ runs'[r].pc # "wait" /\ runs'[r].listening = "off"
            /\ runs'[r].i = runs[r].i
       /\ runs'[r].ignored # runs[r].ignored =>
            runs'[r] = [runs[r] EXCEPT !.ignored = @ + 1]
       /\ runs'[r].resumes <= Cardinality({j \in 1..Len(runs'[r].sink) :
                                             runs'[r].sink[j].kind = "checkpoint"})
       /\ Cardinality(DueUpTo(runs'[r].i, runs'[r].n)) <=
            runs'[r].resumes + (IF runs'[r].pc = "wait" THEN 1 ELSE 0)]_vars
\* A run of 11 segments has passed its second checkpoint with its second
\* click, after clicks that found no listener.
C39_Witness ==
  \E r \in 1..Len(runs) :
    /\ runs[r].n = 11 /\ runs[r].i = 10 /\ runs[r].pc = "stream"
    /\ runs[r].resumes = 2 /\ runs[r].ignored = 2

\* C40: every Summarizer instance a call of handleSummarization has created
\* is destroyed exactly once by the time the call ends, on every path:
\* normal completion, cancellation during or after the creation, an error
\* thrown while streaming.
C40_DestroyedOnce ==
  \A k \in 1..Len(sumCalls) :
    sumCalls[k].pc = "done" =>
      sumCalls[k].destroys = IF sumCalls[k].created THEN 1 ELSE 0

====
